---- MODULE Spec2Model ----
(***************************************************************************)
(* The connection lifecycle of the Yew web chat client                     *)
(* (yew_websockets_chat/src/lib.rs): the App component's fields, the       *)
(* component message queue that App::update consumes one message at a      *)
(* time, and the three kinds of spawn_local task (connect attempt, read    *)
(* loop, send) that talk to the component only through link.send_message.  *)
(*                                                                         *)
(* Option<T> is a sequence of length 0 (None) or 1 (Some(x)).  A JSON text *)
(* is a sequence of tokens: a JSON object is a sequence of <<key, value>>   *)
(* pairs, a value being an Option (null or a string); a text that is no    *)
(* JSON holds a token that is no pair.                                     *)
(***************************************************************************)
EXTENDS Bags, FiniteSets, Integers, Sequences, TLC

\* ---------------------------------------------------------------- bounds
\* Events of the environment after create(): the intents of the user
\* (connect, typing, set username, send) and the inbound frames.
MaxEvents == 4

VARIABLES
    username,        \* App.username
    username_input,  \* App.username_input
    ws_write,        \* App.ws_write: None, or Some(id of the connection)
    messages,        \* App.messages
    current_input,   \* App.current_input
    error,           \* App.error
    is_connected,    \* App.is_connected
    queue,           \* messages sent with link.send_message, not yet updated
    handled,         \* the variant of the message App::update processed last
    connectTasks,    \* connect tasks spawned and not yet run
    opened,          \* per connect attempt: "none", "ok" or "err"
    readLoop,        \* per connection: "none", "spawned", "running", "done"
    sendTasks,       \* bag of send futures spawned and not yet completed
    wire_out,        \* the frames the sink delivered to the server, in order
    log_src,         \* per entry of messages: <<its connection, its arrival>>
    events           \* events of the environment so far

appVars == <<username, username_input, ws_write, messages, current_input,
             error, is_connected>>
taskVars == <<connectTasks, opened, readLoop, sendTasks, wire_out>>
vars == <<appVars, queue, handled, taskVars, log_src, events>>

\* ---------------------------------------------------------------- values
None == <<>>
Some(x) == <<x>>

\* One connect attempt for create() and one for each later Connect.
Conns == 1..(MaxEvents + 1)

\* ChatMessage { username, text, timestamp }
ChatMessage(u, t, ts) == [username |-> u, text |-> t, timestamp |-> ts]

DefaultUsername == "Anonim"
NameInputs == {"", "alice"}
TextInputs == {"", "hi"}
ServerTimestamp == "12:00"

\* The texts update() and the tasks put into Msg::Error / App.error.
ErrConnect == <<"Gagal terhubung ke WebSocket">>
ErrParse(text_data) == <<"Gagal parse pesan server", text_data>>
ErrBinary == <<"Menerima pesan biner, tidak didukung.">>
ErrLost == <<"Koneksi WebSocket terputus.">>
ErrSend == <<"Gagal mengirim pesan">>
ErrNotConnected == <<"Tidak terhubung ke server WebSocket.">>

\* The variants of WebSocketError and the err_msg the read loop makes of each.
WsErrors == {"ConnectionError", "ConnectionClose", "MessageSendError", "Other"}
TransportErrMsg(e) ==
    CASE e = "ConnectionError" -> <<"Koneksi WebSocket error.">>
      [] e = "ConnectionClose" -> <<"Koneksi WebSocket ditutup">>
      [] e = "MessageSendError" -> <<"Error mengirim pesan WebSocket.">>
      [] OTHER -> <<"Error WebSocket tidak diketahui.">>

\* ---------------------------------------------------------------- codec
JNull == <<>>
JStr(s) == <<s>>

\* Bug: a timestamp of None is left out of the object.
Encode_OmitsNone(m) ==
    << <<"username", JStr(m.username)>>, <<"text", JStr(m.text)>> >>
    \o (IF m.timestamp = None THEN <<>>
        ELSE << <<"timestamp", JStr(m.timestamp[1])>> >>)

\* serde_json::to_string(&ChatMessage): the fields in declaration order,
\* timestamp None as null.
Encode(m) ==
    << <<"username", JStr(m.username)>>,
       <<"text", JStr(m.text)>>,
       <<"timestamp", IF m.timestamp = None THEN JNull ELSE JStr(m.timestamp[1])>> >>

IsObject(text) == \A i \in 1..Len(text) : Len(text[i]) = 2
FieldAt(text, key) == {i \in 1..Len(text) : text[i][1] = key}
FieldValue(text, key) == text[CHOOSE i \in FieldAt(text, key) : TRUE][2]

\* serde_json::from_str::<ChatMessage>: username and text are required
\* strings, timestamp is optional (absent or null is None), a field given
\* twice is an error, unknown fields are skipped.
Decodable(text) ==
    /\ IsObject(text)
    /\ \A key \in {"username", "text", "timestamp"} :
          Cardinality(FieldAt(text, key)) <= 1
    /\ \A key \in {"username", "text"} :
          /\ FieldAt(text, key) /= {}
          /\ FieldValue(text, key) /= JNull
Decode(text) ==
    ChatMessage(FieldValue(text, "username")[1],
                FieldValue(text, "text")[1],
                IF FieldAt(text, "timestamp") = {} THEN None
                ELSE FieldValue(text, "timestamp"))

\* WsMessage::Text / WsMessage::Bytes
TextFrame(text) == [type |-> "Text", data |-> text]
BytesFrame == [type |-> "Bytes", data |-> <<>>]

\* What the server may send: the echo of a frame it got, with its timestamp
\* put in; another user's message without a timestamp field; a text that is
\* no JSON; a binary frame.
MalformedText == << <<"{not json">> >>
BobText == << <<"username", JStr("bob")>>, <<"text", JStr("yo")>> >>
Echo(text) == [i \in 1..Len(text) |->
                 IF text[i][1] = "timestamp"
                 THEN <<"timestamp", JStr(ServerTimestamp)>> ELSE text[i]]
Range(s) == {s[i] : i \in 1..Len(s)}
InboundFrames ==
    {TextFrame(Echo(t)) : t \in Range(wire_out)}
    \cup {TextFrame(BobText), TextFrame(MalformedText), BytesFrame}

\* ---------------------------------------------------------------- messages
\* A Msg: its variant and its payload (None for a unit variant).  For the
\* bookkeeping of the properties only, it also names the connection attempt
\* whose task sent it (0 for the component and the user interface) and, for a
\* message made of an inbound frame, the arrival number of the frame.
MsgAt(kind, arg, src, at) == [kind |-> kind, arg |-> arg, src |-> src, at |-> at]
Msg(kind, arg, src) == MsgAt(kind, arg, src, 0)

\* link.send_message: the messages join the component's queue in call order.
Emit(ms) == queue' = queue \o ms

\* App::update takes the oldest message of the queue.
Take(kind) ==
    /\ queue /= <<>>
    /\ Head(queue).kind = kind
    /\ queue' = Tail(queue)
    /\ handled' = kind

\* ---------------------------------------------------------------- Init
\* create(): sends Msg::Connect and returns the default fields.
Init ==
    /\ username = DefaultUsername
    /\ username_input = ""
    /\ ws_write = None
    /\ messages = <<>>
    /\ current_input = ""
    /\ error = None
    /\ is_connected = FALSE
    /\ queue = <<Msg("Connect", None, 0)>>
    /\ handled = "Init"
    /\ connectTasks = 0
    /\ opened = [c \in Conns |-> "none"]
    /\ readLoop = [c \in Conns |-> "none"]
    /\ sendTasks = EmptyBag
    /\ wire_out = <<>>
    /\ log_src = <<>>
    /\ events = 0

\* ---------------------------------------------------------------- update()
\* Bug: Connect drops the installed connection before opening the next.
UpdateConnect_ResetsConnection ==
    /\ Take("Connect")
    /\ connectTasks' = connectTasks + 1
    /\ is_connected' = FALSE
    /\ ws_write' = None
    /\ UNCHANGED <<username, username_input, messages, current_input, error,
                   opened, readLoop, sendTasks, wire_out, log_src, events>>

\* Bug: only the first Connect opens a connection.
UpdateConnect_OnlyFirst ==
    /\ Take("Connect")
    /\ connectTasks' = IF opened[1] = "none" THEN connectTasks + 1
                       ELSE connectTasks
    /\ UNCHANGED <<appVars, opened, readLoop, sendTasks, wire_out,
                   log_src, events>>

\* Msg::Connect: spawn the connect task.
UpdateConnect ==
    /\ Take("Connect")
    /\ connectTasks' = connectTasks + 1
    /\ UNCHANGED <<appVars, opened, readLoop, sendTasks, wire_out,
                   log_src, events>>

\* Bug: the error shown survives a successful connect.
UpdateSetWsWrite_KeepsError ==
    /\ Take("SetWsWrite")
    /\ ws_write' = Head(queue).arg
    /\ is_connected' = (ws_write' /= None)
    /\ UNCHANGED <<username, username_input, messages, current_input, error,
                   taskVars, log_src, events>>

\* Msg::SetWsWrite(ws_write_half)
UpdateSetWsWrite ==
    /\ Take("SetWsWrite")
    /\ ws_write' = Head(queue).arg
    /\ is_connected' = (ws_write' /= None)
    /\ error' = None
    /\ UNCHANGED <<username, username_input, messages, current_input,
                   taskVars, log_src, events>>

\* Msg::SetWsRead(Some(ws_read_half)): spawn the read loop on the half;
\* Msg::SetWsRead(None): nothing.
UpdateSetWsRead ==
    /\ Take("SetWsRead")
    /\ readLoop' = IF Head(queue).arg = None THEN readLoop
                   ELSE [readLoop EXCEPT ![Head(queue).arg[1]] = "spawned"]
    /\ UNCHANGED <<appVars, connectTasks, opened, sendTasks, wire_out,
                   log_src, events>>

\* Msg::WsReadTaskStarted: a log line.
UpdateWsReadTaskStarted ==
    /\ Take("WsReadTaskStarted")
    /\ UNCHANGED <<appVars, taskVars, log_src, events>>

\* Bug: the write half stays in the state.
UpdateConnectionFailed_KeepsWriteHalf ==
    /\ Take("ConnectionFailed")
    /\ is_connected' = FALSE
    /\ UNCHANGED <<username, username_input, ws_write, messages, current_input,
                   error, taskVars, log_src, events>>

\* Bug: losing the connection empties the log.
UpdateConnectionFailed_ClearsLog ==
    /\ Take("ConnectionFailed")
    /\ is_connected' = FALSE
    /\ ws_write' = None
    /\ messages' = <<>>
    /\ log_src' = <<>>
    /\ UNCHANGED <<username, username_input, current_input, error, taskVars,
                   events>>

\* Change: a ConnectionFailed of a connection that is not the installed one
\* is ignored.
UpdateConnectionFailed_ChecksOwner ==
    /\ Take("ConnectionFailed")
    /\ IF ws_write /= None /\ Head(queue).src /= ws_write[1]
       THEN UNCHANGED <<is_connected, ws_write>>
       ELSE is_connected' = FALSE /\ ws_write' = None
    /\ UNCHANGED <<username, username_input, messages, current_input, error,
                   taskVars, log_src, events>>

\* Msg::ConnectionFailed
UpdateConnectionFailed ==
    /\ Take("ConnectionFailed")
    /\ is_connected' = FALSE
    /\ ws_write' = None
    /\ UNCHANGED <<username, username_input, messages, current_input, error,
                   taskVars, log_src, events>>

\* Bug: the newest message goes to the front of the log.
UpdateMessageReceived_Prepends ==
    /\ Take("MessageReceived")
    /\ messages' = <<Head(queue).arg[1]>> \o messages
    /\ log_src' = <<<<Head(queue).src, Head(queue).at>>>> \o log_src
    /\ UNCHANGED <<username, username_input, ws_write, current_input, error,
                   is_connected, taskVars, events>>

\* Msg::MessageReceived(msg)
UpdateMessageReceived ==
    /\ Take("MessageReceived")
    /\ messages' = Append(messages, Head(queue).arg[1])
    /\ log_src' = Append(log_src, <<Head(queue).src, Head(queue).at>>)
    /\ UNCHANGED <<username, username_input, ws_write, current_input, error,
                   is_connected, taskVars, events>>

\* Msg::UpdateInput(input)
UpdateUpdateInput ==
    /\ Take("UpdateInput")
    /\ current_input' = Head(queue).arg[1]
    /\ UNCHANGED <<username, username_input, ws_write, messages, error,
                   is_connected, taskVars, log_src, events>>

\* The send future update() makes on the write half, and the task awaiting it.
SpawnSend(conn, m) ==
    sendTasks' = sendTasks (+) SetToBag({[conn |-> conn,
                                          frame |-> TextFrame(Encode(m))]})

\* Bug: the write half is not looked at.
UpdateSendMessage_IgnoresConnection ==
    /\ Take("SendMessage")
    /\ IF current_input /= ""
       THEN /\ SpawnSend(IF ws_write = None THEN 0 ELSE ws_write[1],
                         ChatMessage(username, current_input, None))
            /\ current_input' = ""
       ELSE UNCHANGED <<sendTasks, current_input>>
    /\ UNCHANGED <<username, username_input, ws_write, messages, is_connected,
                   error, connectTasks, opened, readLoop, wire_out, log_src,
                   events>>

\* Bug: an empty input is sent too.
UpdateSendMessage_SendsEmpty ==
    /\ Take("SendMessage")
    /\ IF ws_write /= None
       THEN /\ SpawnSend(ws_write[1], ChatMessage(username, current_input, None))
            /\ current_input' = ""
            /\ UNCHANGED error
       ELSE /\ error' = Some(ErrNotConnected)
            /\ UNCHANGED <<sendTasks, current_input>>
    /\ UNCHANGED <<username, username_input, ws_write, messages, is_connected,
                   connectTasks, opened, readLoop, wire_out, log_src, events>>

\* Bug: the outgoing message is put into the log at once.
UpdateSendMessage_Optimistic ==
    /\ Take("SendMessage")
    /\ IF ws_write /= None
       THEN IF current_input /= ""
            THEN /\ SpawnSend(ws_write[1],
                              ChatMessage(username, current_input, None))
                 /\ messages' = Append(messages,
                                       ChatMessage(username, current_input, None))
                 /\ log_src' = Append(log_src, <<0, 0>>)
                 /\ current_input' = ""
                 /\ UNCHANGED error
            ELSE UNCHANGED <<sendTasks, current_input, error, messages, log_src>>
       ELSE /\ error' = Some(ErrNotConnected)
            /\ UNCHANGED <<sendTasks, current_input, messages, log_src>>
    /\ UNCHANGED <<username, username_input, ws_write, is_connected,
                   connectTasks, opened, readLoop, wire_out, events>>

\* Msg::SendMessage: with a write half and a non-empty input, serialize
\* ChatMessage { username, current_input, None }, make the send future on the
\* write half, spawn the task awaiting it and clear the input; with a write
\* half and an empty input, nothing; without a write half, set the error.
\* (serde_json::to_string of three string fields has no failing case.)
UpdateSendMessage ==
    /\ Take("SendMessage")
    /\ IF ws_write /= None
       THEN IF current_input /= ""
            THEN /\ SpawnSend(ws_write[1],
                              ChatMessage(username, current_input, None))
                 /\ current_input' = ""
                 /\ UNCHANGED error
            ELSE UNCHANGED <<sendTasks, current_input, error>>
       ELSE /\ error' = Some(ErrNotConnected)
            /\ UNCHANGED <<sendTasks, current_input>>
    /\ UNCHANGED <<username, username_input, ws_write, messages, is_connected,
                   connectTasks, opened, readLoop, wire_out, log_src, events>>

\* Msg::UpdateUsernameInput(input)
UpdateUpdateUsernameInput ==
    /\ Take("UpdateUsernameInput")
    /\ username_input' = Head(queue).arg[1]
    /\ UNCHANGED <<username, ws_write, messages, current_input, error,
                   is_connected, taskVars, log_src, events>>

\* Msg::SetUsername
UpdateSetUsername ==
    /\ Take("SetUsername")
    /\ IF username_input /= ""
       THEN username' = username_input /\ username_input' = ""
       ELSE UNCHANGED <<username, username_input>>
    /\ UNCHANGED <<ws_write, messages, current_input, error, is_connected,
                   taskVars, log_src, events>>

\* Bug: an error message also drops the connection.
UpdateError_Disconnects ==
    /\ Take("Error")
    /\ error' = Some(Head(queue).arg[1])
    /\ is_connected' = FALSE
    /\ ws_write' = None
    /\ UNCHANGED <<username, username_input, messages, current_input,
                   taskVars, log_src, events>>

\* Msg::Error(err_msg)
UpdateError ==
    /\ Take("Error")
    /\ error' = Some(Head(queue).arg[1])
    /\ UNCHANGED <<username, username_input, ws_write, messages, current_input,
                   is_connected, taskVars, log_src, events>>

\* ---------------------------------------------------------------- tasks
\* The browser runs a socket event or a callback of the page as a task of its
\* own, after the work queued by the task before it has run: the component has
\* then updated on every message sent so far.
Settled ==
    /\ queue = <<>>
    /\ connectTasks = 0
    /\ \A c \in Conns : readLoop[c] /= "spawned"

\* Bug: on failure ConnectionFailed is sent before the error.
ConnectTask_FailedThenError(c) ==
    /\ connectTasks > 0
    /\ opened[c] = "none"
    /\ \A d \in Conns : d < c => opened[d] /= "none"
    /\ connectTasks' = connectTasks - 1
    /\ \/ /\ opened' = [opened EXCEPT ![c] = "ok"]
          /\ Emit(<<Msg("SetWsWrite", Some(c), c), Msg("SetWsRead", Some(c), c)>>)
       \/ /\ opened' = [opened EXCEPT ![c] = "err"]
          /\ Emit(<<Msg("ConnectionFailed", None, c),
                    Msg("Error", Some(ErrConnect), c)>>)
    /\ UNCHANGED <<appVars, handled, readLoop, sendTasks, wire_out, log_src,
                   events>>

\* Bug: the read half is sent before the write half.
ConnectTask_ReadBeforeWrite(c) ==
    /\ connectTasks > 0
    /\ opened[c] = "none"
    /\ \A d \in Conns : d < c => opened[d] /= "none"
    /\ connectTasks' = connectTasks - 1
    /\ \/ /\ opened' = [opened EXCEPT ![c] = "ok"]
          /\ Emit(<<Msg("SetWsRead", Some(c), c), Msg("SetWsWrite", Some(c), c)>>)
       \/ /\ opened' = [opened EXCEPT ![c] = "err"]
          /\ Emit(<<Msg("Error", Some(ErrConnect), c),
                    Msg("ConnectionFailed", None, c)>>)
    /\ UNCHANGED <<appVars, handled, readLoop, sendTasks, wire_out,
                   log_src, events>>

\* The task of Msg::Connect: WebSocket::open, then the two halves of the
\* connection, or the error and ConnectionFailed.
ConnectTask(c) ==
    /\ connectTasks > 0
    /\ opened[c] = "none"
    /\ \A d \in Conns : d < c => opened[d] /= "none"
    /\ connectTasks' = connectTasks - 1
    /\ \/ /\ opened' = [opened EXCEPT ![c] = "ok"]
          /\ Emit(<<Msg("SetWsWrite", Some(c), c), Msg("SetWsRead", Some(c), c)>>)
       \/ /\ opened' = [opened EXCEPT ![c] = "err"]
          /\ Emit(<<Msg("Error", Some(ErrConnect), c),
                    Msg("ConnectionFailed", None, c)>>)
    /\ UNCHANGED <<appVars, handled, readLoop, sendTasks, wire_out,
                   log_src, events>>

\* The read task before its first read_stream.next().await.
ReadLoopStart(c) ==
    /\ readLoop[c] = "spawned"
    /\ readLoop' = [readLoop EXCEPT ![c] = "running"]
    /\ Emit(<<Msg("WsReadTaskStarted", None, c)>>)
    /\ UNCHANGED <<appVars, handled, connectTasks, opened, sendTasks, wire_out,
                   log_src, events>>

\* The message the loop body sends for an Ok(frame), the at-th inbound frame.
FrameMsg(frame, c, at) ==
    IF frame.type = "Text"
    THEN IF Decodable(frame.data)
         THEN MsgAt("MessageReceived", Some(Decode(frame.data)), c, at)
         ELSE MsgAt("Error", Some(ErrParse(frame.data)), c, at)
    ELSE MsgAt("Error", Some(ErrBinary), c, at)

\* Bug: a frame that gives no ChatMessage ends the loop.
ReadFrame_StopsOnBadFrame(c) ==
    /\ Settled
    /\ readLoop[c] = "running"
    /\ events < MaxEvents
    /\ events' = events + 1
    /\ \E frame \in InboundFrames :
          /\ Emit(<<FrameMsg(frame, c, events')>>)
          /\ readLoop' = IF FrameMsg(frame, c, events').kind = "Error"
                         THEN [readLoop EXCEPT ![c] = "done"] ELSE readLoop
    /\ UNCHANGED <<appVars, handled, connectTasks, opened, sendTasks, wire_out,
                   log_src>>

\* next() yields Some(Ok(frame)): one message, and the loop goes on.
ReadFrame(c) ==
    /\ Settled
    /\ readLoop[c] = "running"
    /\ events < MaxEvents
    /\ events' = events + 1
    /\ \E frame \in InboundFrames : Emit(<<FrameMsg(frame, c, events')>>)
    /\ UNCHANGED <<appVars, handled, connectTasks, opened, readLoop, sendTasks,
                   wire_out, log_src>>

\* Bug: the loop ends on an error with the error text alone.
ReadError_NoConnectionFailed(c) ==
    /\ Settled
    /\ readLoop[c] = "running"
    /\ \E e \in WsErrors : Emit(<<Msg("Error", Some(TransportErrMsg(e)), c)>>)
    /\ readLoop' = [readLoop EXCEPT ![c] = "done"]
    /\ UNCHANGED <<appVars, handled, connectTasks, opened, sendTasks, wire_out,
                   log_src, events>>

\* next() yields Some(Err(e)): the error and ConnectionFailed, break, and
\* then the two messages that follow the loop.
ReadError(c) ==
    /\ Settled
    /\ readLoop[c] = "running"
    /\ \E e \in WsErrors :
          Emit(<<Msg("Error", Some(TransportErrMsg(e)), c),
                 Msg("ConnectionFailed", None, c),
                 Msg("Error", Some(ErrLost), c),
                 Msg("ConnectionFailed", None, c)>>)
    /\ readLoop' = [readLoop EXCEPT ![c] = "done"]
    /\ UNCHANGED <<appVars, handled, connectTasks, opened, sendTasks, wire_out,
                   log_src, events>>

\* Bug: the end of the stream is reported by ConnectionFailed alone.
ReadEnd_NoErrorText(c) ==
    /\ Settled
    /\ readLoop[c] = "running"
    /\ Emit(<<Msg("ConnectionFailed", None, c)>>)
    /\ readLoop' = [readLoop EXCEPT ![c] = "done"]
    /\ UNCHANGED <<appVars, handled, connectTasks, opened, sendTasks, wire_out,
                   log_src, events>>

\* next() yields None: the two messages that follow the loop.
ReadEnd(c) ==
    /\ Settled
    /\ readLoop[c] = "running"
    /\ Emit(<<Msg("Error", Some(ErrLost), c), Msg("ConnectionFailed", None, c)>>)
    /\ readLoop' = [readLoop EXCEPT ![c] = "done"]
    /\ UNCHANGED <<appVars, handled, connectTasks, opened, sendTasks, wire_out,
                   log_src, events>>

\* Bug: a failed send is not reported.
SendTask_SilentFailure ==
    \E t \in BagToSet(sendTasks) :
       /\ sendTasks' = sendTasks (-) SetToBag({t})
       /\ \/ wire_out' = Append(wire_out, t.frame.data)
          \/ UNCHANGED wire_out
       /\ UNCHANGED <<appVars, queue, handled, connectTasks, opened, readLoop,
                      log_src, events>>

\* The send task: the future resolves Ok (the frame went out, a log line) or
\* Err (Msg::Error).  The write half the future holds may have been dropped by
\* update() meanwhile; either result is possible.
SendTask ==
    \E t \in BagToSet(sendTasks) :
       /\ sendTasks' = sendTasks (-) SetToBag({t})
       /\ \/ /\ wire_out' = Append(wire_out, t.frame.data)
             /\ UNCHANGED queue
          \/ /\ Emit(<<Msg("Error", Some(ErrSend), 0)>>)
             /\ UNCHANGED wire_out
       /\ UNCHANGED <<appVars, handled, connectTasks, opened, readLoop,
                      log_src, events>>

\* ---------------------------------------------------------------- the user
\* The callbacks of view(): each sends one message.
Intent(ms) ==
    /\ Settled
    /\ events < MaxEvents
    /\ events' = events + 1
    /\ Emit(ms)
    /\ UNCHANGED <<appVars, handled, taskVars, log_src>>

\* The reconnect button.  (Msg::Connect is accepted in every state.)
ClickConnect == Intent(<<Msg("Connect", None, 0)>>)

\* on_send_click / on_submit
ClickSend == Intent(<<Msg("SendMessage", None, 0)>>)

\* on_input_change: the input event of a field whose value changed.
TypeInput ==
    \E s \in TextInputs \ {current_input} :
       Intent(<<Msg("UpdateInput", Some(s), 0)>>)

\* on_username_input_change
TypeUsername ==
    \E s \in NameInputs \ {username_input} :
       Intent(<<Msg("UpdateUsernameInput", Some(s), 0)>>)

\* on_set_username_click / on_username_submit
ClickSetUsername == Intent(<<Msg("SetUsername", None, 0)>>)

\* ---------------------------------------------------------------- Next
Next ==
    \/ UpdateConnect
    \/ UpdateSetWsWrite
    \/ UpdateSetWsRead
    \/ UpdateWsReadTaskStarted
    \/ UpdateConnectionFailed
    \/ UpdateMessageReceived
    \/ UpdateUpdateInput
    \/ UpdateSendMessage
    \/ UpdateUpdateUsernameInput
    \/ UpdateSetUsername
    \/ UpdateError
    \/ \E c \in Conns : ConnectTask(c)
    \/ \E c \in Conns : ReadLoopStart(c)
    \/ \E c \in Conns : ReadFrame(c)
    \/ \E c \in Conns : ReadError(c)
    \/ \E c \in Conns : ReadEnd(c)
    \/ SendTask
    \/ ClickConnect
    \/ ClickSend
    \/ TypeInput
    \/ TypeUsername
    \/ ClickSetUsername

Spec == Init /\ [][Next]_vars

\* The connection status the page shows: view() tells the two values of
\* is_connected apart and knows no third.
Status == IF is_connected THEN "Connected" ELSE "Disconnected"

\* The component updates on every message it was sent, and a task spawned
\* with spawn_local runs; nothing makes the user act, a frame arrive, a
\* stream end or a send complete.
Fairness ==
    /\ WF_vars(UpdateConnect)
    /\ WF_vars(UpdateSetWsWrite)
    /\ WF_vars(UpdateSetWsRead)
    /\ WF_vars(UpdateWsReadTaskStarted)
    /\ WF_vars(UpdateConnectionFailed)
    /\ WF_vars(UpdateMessageReceived)
    /\ WF_vars(UpdateUpdateInput)
    /\ WF_vars(UpdateSendMessage)
    /\ WF_vars(UpdateUpdateUsernameInput)
    /\ WF_vars(UpdateSetUsername)
    /\ WF_vars(UpdateError)
    /\ WF_vars(\E c \in Conns : ConnectTask(c))
    /\ WF_vars(\E c \in Conns : ReadLoopStart(c))

FairSpec == Spec /\ Fairness

\* ---------------------------------------------------------------- properties
\* The step is update() on a message of the variant: update() is the only
\* step that shortens the queue.
Updating(kind) ==
    /\ queue /= <<>>
    /\ Head(queue).kind = kind
    /\ queue' = Tail(queue)

\* The messages a step adds to the queue.
Sent == IF Len(queue') > Len(queue)
        THEN SubSeq(queue', Len(queue) + 1, Len(queue'))
        ELSE <<>>

\* The step is the completion of a send task.
SendCompletes == BagCardinality(sendTasks') < BagCardinality(sendTasks)

IsPrefix(a, b) == Len(a) <= Len(b) /\ SubSeq(b, 1, Len(a)) = a

Count(seq, kind, src) ==
    Cardinality({i \in 1..Len(seq) : seq[i].kind = kind /\ seq[i].src = src})

\* C1: in every reachable state is_connected is true if and only if a write
\* half is held in ws_write.
C1_ConnectedIffWriteHalf == is_connected <=> (ws_write /= None)

\* Connected again, on the second connection, after the first one was lost.
C1_Witness ==
    /\ is_connected
    /\ ws_write = Some(2)
    /\ readLoop[1] = "done"
    /\ readLoop[2] = "running"

\* C2: update() on ConnectionFailed while connected leaves is_connected false
\* and ws_write None; only update() on SetWsWrite makes is_connected true
\* again; and update() on SendMessage while not connected spawns no send and
\* sets error to the not-connected text, whatever current_input holds.
C2_DisconnectThenSend ==
    [][ /\ (Updating("ConnectionFailed") /\ is_connected)
             => (~is_connected' /\ ws_write' = None)
        /\ (~is_connected /\ is_connected') => Updating("SetWsWrite")
        /\ (Updating("SendMessage") /\ ~is_connected)
             => /\ sendTasks' = sendTasks
                /\ wire_out' = wire_out
                /\ error' = Some(ErrNotConnected)
                /\ ws_write' = None
      ]_vars

\* A send with a typed input was refused after the connection was lost.
C2_Witness ==
    /\ handled = "SendMessage"
    /\ error = Some(ErrNotConnected)
    /\ current_input = "hi"
    /\ ~is_connected
    /\ readLoop[1] = "done"
    /\ opened[2] = "none"
    /\ sendTasks = EmptyBag

\* C3 as stated: update() on SendMessage spawns a send iff connected with a
\* non-empty input, and in every other case spawns nothing and sets error to
\* the not-connected text.
C3_Original ==
    [][ Updating("SendMessage") =>
          IF is_connected /\ current_input /= ""
          THEN sendTasks' /= sendTasks
          ELSE sendTasks' = sendTasks /\ error' = Some(ErrNotConnected)
      ]_vars

\* C3 amended: update() on SendMessage spawns a send iff connected with a
\* non-empty input; not connected, it spawns nothing and sets error to the
\* not-connected text; connected with an empty input, it spawns nothing and
\* leaves error and the rest of the state as they were.
C3_SendGuard ==
    [][ Updating("SendMessage") =>
          CASE is_connected /\ current_input /= "" ->
                 /\ BagCardinality(sendTasks') = BagCardinality(sendTasks) + 1
                 /\ error' = error
            [] is_connected /\ current_input = "" ->
                 /\ sendTasks' = sendTasks
                 /\ appVars' = appVars
            [] OTHER ->
                 /\ sendTasks' = sendTasks
                 /\ error' = Some(ErrNotConnected)
      ]_vars

\* The only intent so far was a SendMessage with the input empty, processed
\* while connected: no send was spawned and no error was set.
C3_Witness ==
    /\ events = 1
    /\ handled = "SendMessage"
    /\ is_connected
    /\ current_input = ""
    /\ error = None
    /\ sendTasks = EmptyBag
    /\ wire_out = <<>>

\* C4: no step takes an entry out of the log or changes one: the log before a
\* step is a prefix of the log after it.
C4_LogAppendOnly == [][IsPrefix(messages, messages')]_vars

\* A message of the first connection is still in the log after that
\* connection was lost and a second one was installed.
C4_Witness ==
    /\ Len(messages) = 1
    /\ log_src[1][1] = 1
    /\ readLoop[1] = "done"
    /\ is_connected
    /\ ws_write = Some(2)
    /\ handled = "WsReadTaskStarted"

\* The entries of the log and the messages of inbound frames still queued,
\* connection by connection, are in the order the frames arrived.
WireOrder ==
    /\ Len(log_src) = Len(messages)
    /\ \A i, j \in 1..Len(log_src) :
          (i < j /\ log_src[i][1] = log_src[j][1]) => log_src[i][2] < log_src[j][2]
    /\ \A i, j \in 1..Len(queue) :
          (i < j /\ queue[i].src = queue[j].src /\ queue[i].at > 0 /\ queue[j].at > 0)
             => queue[i].at < queue[j].at
    /\ \A i \in 1..Len(log_src), j \in 1..Len(queue) :
          (queue[j].at > 0 /\ queue[j].src = log_src[i][1])
             => log_src[i][2] < queue[j].at

\* C5: update() on MessageReceived(m) appends m to the log and nothing else
\* changes the log, so the log is the sequence of the MessageReceived
\* processed, in that order; and the entries that came over one connection
\* are in the order their frames arrived.
C5_LogOrder ==
    /\ []WireOrder
    /\ [][ /\ Updating("MessageReceived")
              => messages' = Append(messages, Head(queue).arg[1])
           /\ messages' /= messages => Updating("MessageReceived")
         ]_vars

\* Two different messages of one connection are in the log.
C5_Witness ==
    /\ Len(messages) = 2
    /\ messages[1] /= messages[2]
    /\ log_src[1][1] = log_src[2][1]

\* What the server can have sent that decodes to a ChatMessage.
FromServer ==
    {Decode(BobText)} \cup {Decode(Echo(t)) : t \in Range(wire_out)}

\* C6: update() on SendMessage and the completion of a send leave the log as
\* it is; every entry of the log is a message the server sent, an entry
\* written by this client being the echo, with the server's timestamp, of a
\* frame that reached the server.
C6_NoOptimisticAppend ==
    /\ [](\A i \in 1..Len(messages) : messages[i] \in FromServer)
    /\ [][(Updating("SendMessage") \/ SendCompletes) => messages' = messages]_vars

\* One send, one echo: the log is the echoed message with its timestamp.
C6_Witness ==
    /\ messages = <<ChatMessage(DefaultUsername, "hi", Some(ServerTimestamp))>>
    /\ Len(wire_out) = 1
    /\ sendTasks = EmptyBag
    /\ handled = "MessageReceived"

\* C7: the read loop answers a frame that gives no ChatMessage with one Error
\* message and goes on reading; update() on an Error message sets error and
\* leaves is_connected, ws_write and the log as they were.
C7_BadFrameNotFatal ==
    [][ /\ (Len(Sent) > 0 /\ Sent[1].at > 0 /\ Sent[1].kind = "Error")
             => /\ Len(Sent) = 1
                /\ readLoop' = readLoop
                /\ readLoop[Sent[1].src] = "running"
                /\ appVars' = appVars
        /\ Updating("Error")
             => /\ error' = Some(Head(queue).arg[1])
                /\ is_connected' = is_connected
                /\ ws_write' = ws_write
                /\ messages' = messages
      ]_vars

\* The first frame of the connection was no JSON, its second frame is in the
\* log, and the client is still connected.
C7_Witness ==
    /\ events = 2
    /\ error = Some(ErrParse(MalformedText))
    /\ Len(messages) = 1
    /\ log_src[1] = <<1, 2>>
    /\ handled = "MessageReceived"
    /\ is_connected
    /\ readLoop[1] = "running"

\* C8 as stated: a read loop sends at most one ConnectionFailed in its life,
\* and no message after it.
C8_AtMostOneConnectionLost ==
    [][ \A c \in Conns :
          readLoop[c] = "running" =>
             /\ Count(Sent, "ConnectionFailed", c) <= 1
             /\ \A i \in 1..Len(Sent) :
                   (Sent[i].kind = "ConnectionFailed" /\ Sent[i].src = c)
                      => i = Len(Sent)
      ]_vars

FailedConnectOrder ==
    /\ \A i \in 1..Len(queue) :
          (queue[i].kind = "ConnectionFailed" /\ opened[queue[i].src] = "err")
             => IF i = 1
                THEN handled = "Error" /\ error = Some(ErrConnect)
                ELSE queue[i - 1] = Msg("Error", Some(ErrConnect), queue[i].src)
    /\ \A c \in Conns : opened[c] = "err" => readLoop[c] = "none"

\* C10: a failed connect attempt sends its Error before its ConnectionFailed;
\* when update() has processed both, is_connected is false, ws_write is
\* None, error holds the connect error, and the attempt has no read loop.
C10_FailedConnect ==
    /\ []FailedConnectOrder
    /\ [][ (Updating("ConnectionFailed") /\ opened[Head(queue).src] = "err")
             => /\ ~is_connected'
                /\ ws_write' = None
                /\ error' = Some(ErrConnect)
                /\ readLoop'[Head(queue).src] = "none"
         ]_vars

\* The first connect attempt failed and both its messages were processed.
C10_Witness ==
    /\ handled = "ConnectionFailed"
    /\ opened[1] = "err"
    /\ opened[2] = "none"
    /\ error = Some(ErrConnect)
    /\ ~is_connected
    /\ queue = <<>>


\* C11: Connect is taken in every state, connected or not, after a failed
\* attempt as after a lost connection: update() on Connect spawns one more
\* connect task; an attempt whose open succeeded gets a connection id no
\* attempt had before; under fair scheduling every attempt whose open
\* succeeded ends up with its own read loop spawned, and update() on its
\* SetWsWrite installs its write half with is_connected true.
C11_ReconnectAlwaysOpen ==
    /\ [][Updating("Connect") => connectTasks' = connectTasks + 1]_vars
    /\ [][\A c \in Conns :
            (opened[c] = "none" /\ opened'[c] = "ok")
               => /\ readLoop[c] = "none"
                  /\ ws_write /= Some(c)
                  /\ Count(queue, "SetWsWrite", c) = 0]_vars
    /\ <>[](\A c \in Conns : opened[c] = "ok" => readLoop[c] /= "none")
    /\ [][Updating("SetWsWrite") /\ Head(queue).arg /= None
            => is_connected' /\ ws_write' = Head(queue).arg]_vars

\* The first attempt failed, the second connection was lost, and the third
\* attempt connected, with its own read loop running.
C11_Witness ==
    /\ opened[1] = "err"
    /\ readLoop[2] = "done"
    /\ is_connected
    /\ ws_write = Some(3)
    /\ readLoop[3] = "running"
    /\ queue = <<>>

\* C12: update() on the Error message of a failed send sets error to that
\* message and leaves is_connected, ws_write and messages as they were;
\* is_connected goes from true to false only in update() on ConnectionFailed.
C12_FailedSendKeepsConnection ==
    /\ [][(Updating("Error") /\ Head(queue).arg = Some(ErrSend))
            => /\ error' = Some(ErrSend)
               /\ is_connected' = is_connected
               /\ ws_write' = ws_write
               /\ messages' = messages]_vars
    /\ [][(is_connected /\ ~is_connected') => Updating("ConnectionFailed")]_vars

\* The failed send of the one message typed is shown while the connection
\* is still installed.
C12_Witness ==
    /\ handled = "Error"
    /\ error = Some(ErrSend)
    /\ is_connected
    /\ ws_write = Some(1)
    /\ readLoop[1] = "running"
    /\ wire_out = <<>>

\* C13: update() on a ConnectionFailed sent by the read loop of another
\* connection than the installed one still sets is_connected to false and
\* ws_write to None, and no read loop is stopped by it.
C13_StaleConnectionLost ==
    [][(/\ Updating("ConnectionFailed")
        /\ ws_write /= None
        /\ Head(queue).src /= ws_write[1])
          => /\ ~is_connected'
             /\ ws_write' = None
             /\ readLoop' = readLoop]_vars

\* The read loop of the first connection ended after the second connection
\* was installed: the client is disconnected with no write half while the
\* second connection's read loop is running.
C13_Witness ==
    /\ handled = "ConnectionFailed"
    /\ queue = <<>>
    /\ readLoop[1] = "done"
    /\ readLoop[2] = "running"
    /\ opened[3] = "none"
    /\ connectTasks = 0
    /\ ~is_connected
    /\ ws_write = None

\* The err_msg texts of the read loop, and the two ways its stream ends.
TransportErrs == {TransportErrMsg(e) : e \in WsErrors}
LoopEnds(c) == readLoop[c] = "running" /\ readLoop'[c] = "done"
EndsByError ==
    /\ Sent /= <<>>
    /\ Sent[1].kind = "Error"
    /\ Sent[1].arg[1] \in TransportErrs

\* C14: a read loop whose stream yields a transport error sends the Error of
\* that error, then ConnectionFailed, and nothing else.
C14_TransportErrorThenLost ==
    [][\A c \in Conns :
         (LoopEnds(c) /\ EndsByError)
            => /\ Len(Sent) = 2
               /\ Sent[2] = Msg("ConnectionFailed", None, c)]_vars

\* C15 as stated: a read loop whose stream is exhausted sends
\* ConnectionFailed alone.
C15_Original ==
    [][\A c \in Conns :
         (LoopEnds(c) /\ ~EndsByError)
            => Sent = <<Msg("ConnectionFailed", None, c)>>]_vars

\* C15: a read loop whose stream is exhausted sends Error("Koneksi WebSocket
\* terputus.") and then ConnectionFailed, nothing else; update() on that
\* Error sets error to the text, whatever error was before.
C15_CleanCloseReported ==
    /\ [][\A c \in Conns :
            (LoopEnds(c) /\ ~EndsByError)
               => Sent = <<Msg("Error", Some(ErrLost), c),
                           Msg("ConnectionFailed", None, c)>>]_vars
    /\ [][(Updating("Error") /\ Head(queue).arg = Some(ErrLost))
            => error' = Some(ErrLost)]_vars

\* The stream of the only connection was exhausted: the text is shown and
\* the one ConnectionFailed of the loop is still to be taken, the client
\* being connected until then.
C15_Witness ==
    /\ readLoop[1] = "done"
    /\ opened[2] = "none"
    /\ handled = "Error"
    /\ error = Some(ErrLost)
    /\ queue = <<Msg("ConnectionFailed", None, 1)>>
    /\ is_connected

\* C16 as stated: update() on Connect while disconnected makes the status
\* Connecting.
C16_Original ==
    [][(Updating("Connect") /\ Status = "Disconnected")
          => Status' = "Connecting"]_vars

\* C16: the status is Disconnected or Connected and nothing else; update()
\* on Connect changes no field of the component, so the status is what it
\* was once the attempt is pending; it becomes Connected only in update()
\* on SetWsWrite and Disconnected only in update() on ConnectionFailed.
C16_TwoValuedStatus ==
    /\ [](Status \in {"Disconnected", "Connected"})
    /\ [][Updating("Connect") => appVars' = appVars]_vars
    /\ [][Status' /= Status
            => IF Status' = "Connected" THEN Updating("SetWsWrite")
               ELSE Updating("ConnectionFailed")]_vars

\* After a failed first attempt the user's Connect was taken: its attempt is
\* pending and the status is still Disconnected.
C16_Witness ==
    /\ opened[1] = "err"
    /\ opened[2] = "none"
    /\ handled = "Connect"
    /\ connectTasks = 1
    /\ Status = "Disconnected"
    /\ events = 1

\* C17: a read loop that has ended never runs again; the step that ends it
\* sends a ConnectionFailed of that loop and the loop sends none later;
\* under fair scheduling the ConnectionFailed of every ended loop are in
\* the end all taken by update(), and is_connected is false right after
\* update() on ConnectionFailed.
C17_LoopEndReachesUpdate ==
    /\ [][\A c \in Conns :
            readLoop[c] = "done" => readLoop'[c] = "done"]_vars
    /\ [][\A c \in Conns :
            LoopEnds(c) => Count(Sent, "ConnectionFailed", c) >= 1]_vars
    /\ [][\A c \in Conns :
            readLoop[c] = "done"
               => Count(queue', "ConnectionFailed", c)
                     <= Count(queue, "ConnectionFailed", c)]_vars
    /\ <>[](\A c \in Conns :
               readLoop[c] = "done" => Count(queue, "ConnectionFailed", c) = 0)
    /\ [][Updating("ConnectionFailed") => Status' = "Disconnected"]_vars

\* The first connection's read loop ended and every message it sent has
\* been taken: the client is disconnected.
C17_Witness ==
    /\ readLoop[1] = "done"
    /\ opened[2] = "none"
    /\ events = 0
    /\ queue = <<>>
    /\ handled = "ConnectionFailed"
    /\ Status = "Disconnected"
    /\ ws_write = None

\* The SetWsWrite of connection c was taken by update().
Installed(c) == opened[c] = "ok" /\ Count(queue, "SetWsWrite", c) = 0

\* C18: a successful connect sends one SetWsWrite and one SetWsRead; the
\* read loop of a connection exists only once its SetWsWrite and then its
\* SetWsRead were taken, and is spawned by that one SetWsRead; every
\* message of a connection's read loop waiting in the queue finds the
\* connection's write half already installed.
C18_InstallBeforeReadLoop ==
    \A c \in Conns :
       /\ Count(queue, "SetWsWrite", c) <= 1
       /\ opened[c] = "ok"
             => Count(queue, "SetWsRead", c)
                   = (IF readLoop[c] = "none" THEN 1 ELSE 0)
       /\ readLoop[c] /= "none" => Installed(c)
       /\ \A i \in 1..Len(queue) :
             (/\ queue[i].src = c
              /\ opened[c] = "ok"
              /\ queue[i].kind \notin {"SetWsWrite", "SetWsRead"})
                => (readLoop[c] /= "none" /\ Installed(c))

\* The write half of the first connection is installed and its SetWsRead
\* has just spawned the read loop, which has sent nothing yet.
C18_Witness ==
    /\ handled = "SetWsRead"
    /\ readLoop[1] = "spawned"
    /\ is_connected
    /\ ws_write = Some(1)
    /\ queue = <<>>

\* The text frame of {"username":u,"text":t,"timestamp":null}.
NullStampFrame(u, t) ==
    [type |-> "Text",
     data |-> << <<"username", <<u>>>>, <<"text", <<t>>>>, <<"timestamp", <<>>>> >>]

\* C19: update() on SendMessage with a write half and a non-empty input
\* hands to that write half one text frame, the JSON object of the username
\* and the input of that moment with a null timestamp; the input is empty
\* afterwards; username, is_connected and ws_write are as before.
C19_SentFrame ==
    [][(/\ Updating("SendMessage")
        /\ ws_write /= None
        /\ current_input /= "")
          => /\ sendTasks' = sendTasks (+)
                   SetToBag({[conn |-> ws_write[1],
                              frame |-> NullStampFrame(username, current_input)]})
             /\ current_input' = ""
             /\ username' = username
             /\ is_connected' = is_connected
             /\ ws_write' = ws_write]_vars

\* The user took the name alice and sent hi: that frame is handed to the
\* write half and the input is empty.
C19_Witness ==
    /\ handled = "SendMessage"
    /\ username = "alice"
    /\ current_input = ""
    /\ is_connected
    /\ ws_write = Some(1)
    /\ sendTasks = SetToBag({[conn |-> 1, frame |-> NullStampFrame("alice", "hi")]})

\* C20: update() on SetWsWrite sets error to None; apart from it, error
\* changes only in update() on Error and in update() on SendMessage with no
\* write half.
C20_ErrorReset ==
    /\ [][Updating("SetWsWrite") => error' = None]_vars
    /\ [][error' /= error
            => \/ Updating("SetWsWrite")
               \/ Updating("Error")
               \/ Updating("SendMessage") /\ ws_write = None]_vars

\* A first attempt failed and a second one connected: the text of the
\* failure is gone although no later error replaced it.
C20_Witness ==
    /\ opened[1] = "err"
    /\ opened[2] = "ok"
    /\ handled = "SetWsWrite"
    /\ is_connected
    /\ error = None

====
